---- MODULE Spec2Model ----
(***************************************************************************)
(* A model of src/run.py: the Streamlit article-analysis tool.  The part   *)
(* modelled is the concurrent multi-model query (query_model_async,        *)
(* query_models_concurrent), the report assembler                          *)
(* (create_markdown_content), process_article and the main batch loop.     *)
(*                                                                         *)
(* Texts are sequences of tokens (strings).  A token is an atomic piece of *)
(* text; WS is a run of whitespace.                                        *)
(***************************************************************************)
EXTENDS Integers, Sequences, FiniteSets, TLC

VARIABLES
    content_list,           \* the documents of the run (URL list or one text)
    input_mode,             \* "url" | "text"
    selected_models,        \* the models selected in the sidebar, deduplicated
    endpoint,               \* environment: how the remote API answers each model
    clock,                  \* the last value datetime.now() returned
    pc,                     \* position of the main thread
    idx,                    \* main loop: 1-based index into content_list
    timestamp,              \* main loop: the batch's file-name timestamp
    all_results,            \* main loop: filename -> report, in insertion order
    downloads,              \* main loop: the download buttons rendered so far
    title,                  \* process_article: the document's title
    test_type,              \* process_article: "A" | "B"
    prompt_i,               \* process_article: 1-based prompt index
    all_prompt_responses,   \* process_article: one mapping per finished prompt
    results,                \* process_article: test_type -> report
    task,                   \* pool: per submitted task, its state
    returned,               \* pool: per task, what query_model_async returned
    model_responses,        \* query_models_concurrent: model -> text, ordered
    completed,              \* query_models_concurrent: progress counter
    api_key,                \* sidebar: the API key, "" when none was entered
    image_data,             \* sidebar: the uploaded image, "none" when absent
    zip_file                \* batch export: the entries written to the archive

\* What the user entered, and the environment: fixed during a run.
config == <<content_list, input_mode, selected_models, endpoint, api_key, image_data>>

vars == <<content_list, input_mode, selected_models, endpoint, clock, pc, idx,
          timestamp, all_results, downloads, title, test_type, prompt_i,
          all_prompt_responses, results, task, returned, model_responses,
          completed, api_key, image_data, zip_file>>

(***************************************************************************)
(* Bounds of the model.                                                    *)
(***************************************************************************)
MaxPoolModels == 6
MaxDocs == 2
MaxTime == 1
MaxFailN == 1

(***************************************************************************)
(* Program data.                                                           *)
(***************************************************************************)
\* MODELS: the head of the catalogue (OpenAI, Qwen, the first two of
\* Moonshot), in catalogue order.
MODELS ==
    <<"gpt-4o", "gpt-4-turbo", "gpt-3.5-turbo",
      "qwen3-235b-a22b-instruct-2507", "qwen/qwen3-235b-a22b-thinking-2507",
      "qwen/qwen2.5-vl-72b-instruct", "qwen3-next-80b-a3b-instruct",
      "moonshot-v1-32k", "moonshot-v1-128k">>

\* The vendor (provider group) of a model of the catalogue.
Vendor(m) ==
    IF m \in {"gpt-4o", "gpt-4-turbo", "gpt-3.5-turbo"} THEN "OpenAI"
    ELSE IF m \in {"moonshot-v1-32k", "moonshot-v1-128k"} THEN "Moonshot"
    ELSE IF m = "claude-3-5-haiku-20241022" THEN "Anthropic"
    ELSE IF m = "glm-4.5" THEN "GLM"
    ELSE "Qwen"

Vendors == {"OpenAI", "Qwen", "Moonshot", "Anthropic", "GLM"}

\* The sidebar's default selection.
DefaultSelection == <<"gpt-4o", "claude-3-5-haiku-20241022", "glm-4.5">>

\* The cap of the thread pool.
MAX_WORKERS == 5

\* The minimum length of a usable cleaned text.
MIN_CONTENT_LEN == 50

TestTypes == <<"A", "B">>
NumPrompts == 2

WS == " "
\* The fixed head and tail of the failure text (given here in English).
FailPrefix == "model call failed: "
FailSuffix == " (check the API key or whether the model is supported)"

(***************************************************************************)
(* Helpers on sequences and ordered mappings (Python dicts keep insertion  *)
(* order; assigning to an existing key keeps the key's position).          *)
(***************************************************************************)
Range(s) == {s[i] : i \in 1..Len(s)}

Min(a, b) == IF a < b THEN a ELSE b

Prefixes(s, n) == {SubSeq(s, 1, k) : k \in 1..Min(n, Len(s))}

Keys(d) == [i \in 1..Len(d) |-> d[i][1]]

KeySet(d) == {d[i][1] : i \in 1..Len(d)}

Lookup(d, k) == (CHOOSE i \in 1..Len(d) : d[i][1] = k)

Get(d, k) == d[Lookup(d, k)][2]

\* d[k] = v
DictSet(d, k, v) ==
    IF k \in KeySet(d) THEN [d EXCEPT ![Lookup(d, k)] = <<k, v>>]
    ELSE Append(d, <<k, v>>)

(***************************************************************************)
(* The environment: the remote chat-completion endpoint.  A behaviour says *)
(* how the endpoint answers the requests of one task for one model: the    *)
(* first failN requests fail with err, every later one is an HTTP 200      *)
(* whose body is of the kind given.                                        *)
(*   err : "http500" (raise_for_status raises), "timeout" (requests raises)*)
(*   body: "answer" (a choices array with a non-blank content),            *)
(*         "blank" (a choices array whose content is whitespace only),     *)
(*         "malformed" (JSON without choices: the subscript raises)        *)
(***************************************************************************)
Errs == {"http500", "timeout"}
Bodies == {"answer", "blank", "malformed"}

Behaviours ==
    {[failN |-> 0, err |-> "none", body |-> b] : b \in Bodies}
    \cup {[failN |-> k, err |-> e, body |-> "answer"] : k \in 1..MaxFailN, e \in Errs}

Ok == [failN |-> 0, err |-> "none", body |-> "answer"]
Http500 == [failN |-> 1, err |-> "http500", body |-> "answer"]

\* The model's own answer to a prompt over a context, as the endpoint sends
\* it: the content field, with whitespace around it.
AnswerCore(model, context, prompt) == <<"answer of ", model, " on ", context, prompt>>

Content(b, model, context, prompt) ==
    IF b.body = "answer" THEN <<WS>> \o AnswerCore(model, context, prompt) \o <<WS>>
    ELSE <<WS, WS>>

\* The response to the attempt-th request of a task.
Respond(b, attempt) ==
    IF attempt <= b.failN THEN [status |-> b.err, body |-> "none"]
    ELSE [status |-> "200", body |-> b.body]

\* str(e) of the exception a response raises in query_model_async.
ErrMsg(resp) ==
    IF resp.status = "http500" THEN "500 Server Error: Internal Server Error for url: ..."
    ELSE IF resp.status = "timeout" THEN "HTTPSConnectionPool(...): Read timed out."
    ELSE "'choices'"

(***************************************************************************)
(* str.strip(): drop the leading and the trailing whitespace tokens.       *)
(***************************************************************************)
RECURSIVE lstrip(_)
lstrip(s) == IF s # <<>> /\ s[1] = WS THEN lstrip(Tail(s)) ELSE s

RECURSIVE rstrip(_)
rstrip(s) ==
    IF s # <<>> /\ s[Len(s)] = WS THEN rstrip(SubSeq(s, 1, Len(s) - 1)) ELSE s

strip(s) == rstrip(lstrip(s))

(***************************************************************************)
(* query_model_async: one request; the answer's content stripped, or the   *)
(* failure text when anything raises.  The code returns (model, text);     *)
(* status says which return statement was taken and requests counts the    *)
(* requests.post calls made.                                               *)
(***************************************************************************)
Failure(model, resp, n) ==
    [model |-> model, status |-> "Failure", requests |-> n,
     text |-> <<FailPrefix, ErrMsg(resp), FailSuffix>>]

Success(model, b, context, prompt, n) ==
    [model |-> model, status |-> "Success", requests |-> n,
     text |-> strip(Content(b, model, context, prompt))]

Attempt(model, b, context, prompt, n) ==
    LET resp == Respond(b, n)
    IN  IF resp.status = "200" /\ resp.body # "malformed"
        THEN Success(model, b, context, prompt, n)
        ELSE Failure(model, resp, n)

query_model_async_retry(model, b, context, prompt) ==
    LET first == Attempt(model, b, context, prompt, 1)
    IN  IF first.status = "Success" THEN first
        ELSE Attempt(model, b, context, prompt, 2)

query_model_async(model, b, context, prompt) ==
    Attempt(model, b, context, prompt, 1)

(***************************************************************************)
(* query_models_concurrent.  The main thread submits one task per model to *)
(* a ThreadPoolExecutor, whose workers take the tasks in submission order; *)
(* as_completed hands the finished futures to the main thread one by one,  *)
(* in whatever order they finish.                                          *)
(*   task[i]: "queued" -> "running" -> "done" -> "collected"               *)
(***************************************************************************)
NoResult == [model |-> "", status |-> "none", requests |-> 0, text |-> <<>>]

Prompt(i) == IF i = 1 THEN "prompt 1" ELSE "prompt 2"

InFlight == {i \in DOMAIN task : task[i] = "running"}

max_workers_uncapped(total_models) == total_models

\* max_workers = min(5, total_models)
max_workers(total_models) == Min(MAX_WORKERS, total_models)

as_completed_done_on_failure(t, r) ==
    \/ \A i \in DOMAIN t : t[i] = "collected"
    \/ \E i \in DOMAIN t : t[i] = "collected" /\ r[i].status = "Failure"

as_completed_done_on_first(t, r) == \E i \in DOMAIN t : t[i] = "collected"

as_completed_done_when_idle(t, r) ==
    /\ \E i \in DOMAIN t : t[i] = "collected"
    /\ \A i \in DOMAIN t : t[i] # "done"

\* The for loop over as_completed(futures) ends when every future was yielded.
as_completed_done(t, r) == \A i \in DOMAIN t : t[i] = "collected"

insert_response_drop_failed(d, model, response) ==
    IF response # <<>> /\ response[1] = FailPrefix THEN d ELSE DictSet(d, model, response)

\* model_responses[model] = response
insert_response(d, model, response) == DictSet(d, model, response)

\* Lines 384-399: the empty mapping, the early return, the pool, the submits.
Dispatch ==
    /\ pc = "dispatch"
    /\ model_responses' = <<>>
    /\ completed' = 0
    /\ IF Len(selected_models) = 0
       THEN /\ pc' = "returned"
            /\ task' = <<>>
            /\ returned' = <<>>
       ELSE /\ pc' = "pool"
            /\ task' = [i \in 1..Len(selected_models) |-> "queued"]
            /\ returned' = [i \in 1..Len(selected_models) |-> NoResult]
    /\ UNCHANGED <<config, clock,
                   idx, timestamp, all_results, downloads, zip_file, title, test_type,
                   prompt_i, all_prompt_responses, results>>

\* A worker takes the oldest queued task and calls query_model_async.
Start(i) ==
    /\ i \in DOMAIN task
    /\ task[i] = "queued"
    /\ \A j \in 1..(i - 1) : task[j] # "queued"
    /\ Cardinality(InFlight) < max_workers(Len(task))
    /\ task' = [task EXCEPT ![i] = "running"]
    /\ UNCHANGED <<config, clock,
                   pc, idx, timestamp, all_results, downloads, zip_file, title, test_type,
                   prompt_i, all_prompt_responses, results, returned,
                   model_responses, completed>>

\* The call returns: the future holds (model, text).
Finish(i) ==
    /\ i \in DOMAIN task
    /\ task[i] = "running"
    /\ task' = [task EXCEPT ![i] = "done"]
    /\ returned' = [returned EXCEPT ![i] =
            query_model_async(selected_models[i], endpoint[selected_models[i]],
                              test_type, Prompt(prompt_i))]
    /\ UNCHANGED <<config, clock,
                   pc, idx, timestamp, all_results, downloads, zip_file, title, test_type,
                   prompt_i, all_prompt_responses, results, model_responses,
                   completed>>

\* Lines 402-406: one turn of the loop over as_completed.
Collect(i) ==
    /\ pc = "pool"
    /\ i \in DOMAIN task
    /\ task[i] = "done"
    /\ ~as_completed_done(task, returned)
    /\ task' = [task EXCEPT ![i] = "collected"]
    /\ model_responses' = insert_response(model_responses, returned[i].model, returned[i].text)
    /\ completed' = completed + 1
    /\ UNCHANGED <<config, clock,
                   pc, idx, timestamp, all_results, downloads, zip_file, title, test_type,
                   prompt_i, all_prompt_responses, results, returned>>

\* Lines 406-409: the loop and the with block end; model_responses is returned.
PoolExit ==
    /\ pc = "pool"
    /\ as_completed_done(task, returned)
    /\ pc' = "returned"
    /\ UNCHANGED <<config, clock,
                   idx, timestamp, all_results, downloads, zip_file, title, test_type,
                   prompt_i, all_prompt_responses, results, task, returned,
                   model_responses, completed>>

(***************************************************************************)
(* Documents.  A document is what the source holds: a title (a sequence    *)
(* of characters), whether fetching it works (a URL; a pasted text always  *)
(* does), and its cleaned text, of which the program reads the first word  *)
(* (head: "Error" or "other") and the length.                              *)
(***************************************************************************)
TRUNCATE_AT == 4000

\* Lines 318-319 and 344-345: a long text is cut and "..." is added.
Truncated(len) == IF len > TRUNCATE_AT THEN TRUNCATE_AT + 3 ELSE len

\* A failed fetch returns the sentinel pair ("Error Title", "Error: <message>").
extract_and_clean_chinese(doc) ==
    IF doc.fetch = "fail"
    THEN [title |-> <<"E">>, head |-> "Error", len |-> 40]
    ELSE [title |-> doc.title, head |-> doc.head, len |-> Truncated(doc.len)]

clean_direct_text(doc) ==
    [title |-> doc.title, head |-> doc.head, len |-> Truncated(doc.len)]

Acquire(doc, mode) ==
    IF mode = "url" THEN extract_and_clean_chinese(doc) ELSE clean_direct_text(doc)

\* Line 539, negated: the content is neither the sentinel nor too short.
IsValidContent(c) == ~(c.head = "Error" \/ c.len < MIN_CONTENT_LEN)

\* re.sub(r'[^\w\s-]', '', title)[:30].strip(): "?" stands for the characters
\* the pattern removes.
SAFE_TITLE_LEN == 30

IsSafeChar(ch) == ch # "?"

safe_title(t) ==
    LET kept == SelectSeq(t, IsSafeChar)
    IN  strip(SubSeq(kept, 1, Min(SAFE_TITLE_LEN, Len(kept))))

Filename(t, tt, ts) == <<safe_title(t), "_Test", tt, ts, ".md">>

(***************************************************************************)
(* create_markdown_content.  The report is the record of what the string   *)
(* holds, in the order it holds it: the header lines, the image (Test B    *)
(* only), then one section per prompt with one block per item of that      *)
(* prompt's mapping, in the mapping's own order.                           *)
(***************************************************************************)
create_markdown_content(t, responses, tt, models_list, image, content_source, now) ==
    [title    |-> t,
     time     |-> now,
     source   |-> content_source,
     test     |-> tt,
     models   |-> models_list,
     image    |-> IF tt = "B" /\ image # "none" THEN image ELSE "none",
     sections |-> [i \in 1..Min(NumPrompts, Len(responses)) |->
                      [prompt |-> i, blocks |-> responses[i]]]]

(***************************************************************************)
(* process_article and the main loop.                                      *)
(***************************************************************************)
\* Line 603-617: the button is enabled and pressed; the batch starts.
StartAnalysis ==
    /\ pc = "start"
    /\ Len(content_list) > 0 /\ Len(selected_models) > 0 /\ api_key # ""
    /\ \E now \in clock..MaxTime :
          /\ clock' = now
          /\ timestamp' = now
    /\ all_results' = <<>>
    /\ idx' = 1
    /\ pc' = "main"
    /\ UNCHANGED <<config, downloads, zip_file, title, test_type, prompt_i,
                   all_prompt_responses, results, task, returned,
                   model_responses, completed>>

\* Lines 619-629 and 527-549: the next document is acquired; an invalid one
\* makes process_article return (None, None) and the loop moves on.
ProcessArticle ==
    /\ pc = "main"
    /\ idx <= Len(content_list)
    /\ LET got == Acquire(content_list[idx], input_mode)
       IN  IF IsValidContent(got)
           THEN /\ title' = got.title
                /\ results' = <<>>
                /\ test_type' = "A"
                /\ prompt_i' = 1
                /\ all_prompt_responses' = <<>>
                /\ pc' = "dispatch"
                /\ idx' = idx
           ELSE /\ idx' = idx + 1
                /\ UNCHANGED <<title, results, test_type, prompt_i,
                               all_prompt_responses, pc>>
    /\ UNCHANGED <<config, clock, timestamp, all_results, downloads, zip_file,
                   task, returned, model_responses, completed>>

\* Lines 567-577: the mapping of the prompt is kept; the next prompt follows.
AppendResponses ==
    /\ pc = "returned"
    /\ all_prompt_responses' = Append(all_prompt_responses, model_responses)
    /\ IF prompt_i < NumPrompts
       THEN prompt_i' = prompt_i + 1 /\ pc' = "dispatch"
       ELSE prompt_i' = prompt_i /\ pc' = "assemble"
    /\ UNCHANGED <<config, clock, idx, timestamp, all_results, downloads,
                   zip_file, title, test_type, results, task, returned,
                   model_responses, completed>>

\* Lines 580-588: the report of the variant.
Assemble ==
    /\ pc = "assemble"
    /\ \E now \in clock..MaxTime :
          /\ clock' = now
          /\ results' = DictSet(results, test_type,
                create_markdown_content(title, all_prompt_responses, test_type,
                                        selected_models, image_data, input_mode, now))
    /\ pc' = "assembled"
    /\ UNCHANGED <<config, idx, timestamp, all_results, downloads, zip_file,
                   title, test_type, prompt_i, all_prompt_responses, task,
                   returned, model_responses, completed>>

\* Line 550: the loop over test_configs goes on to variant B.
NextVariant ==
    /\ pc = "assembled"
    /\ test_type = "A"
    /\ test_type' = "B"
    /\ prompt_i' = 1
    /\ all_prompt_responses' = <<>>
    /\ pc' = "dispatch"
    /\ UNCHANGED <<config, clock, idx, timestamp, all_results, downloads,
                   zip_file, title, results, task, returned, model_responses,
                   completed>>

RECURSIVE StoreAll(_, _, _, _)
\* Lines 633-636: all_results[filename] = md_content for each report.
StoreAll(all, res, t, ts) ==
    IF res = <<>> THEN all
    ELSE StoreAll(DictSet(all, Filename(t, res[1][1], ts), res[1][2]), Tail(res), t, ts)

\* Lines 639-652: one download button per report.
Buttons(res, t, ts, n) ==
    [k \in 1..Len(res) |->
        [idx |-> n, test |-> res[k][1], file |-> Filename(t, res[k][1], ts),
         data |-> res[k][2]]]

\* Lines 590 and 631-658: process_article returns (title, results); the main
\* loop stores and offers the reports and moves on.
ReturnArticle ==
    /\ pc = "assembled"
    /\ test_type = "B"
    /\ all_results' = StoreAll(all_results, results, title, timestamp)
    /\ downloads' = downloads \o Buttons(results, title, timestamp, idx)
    /\ idx' = idx + 1
    /\ pc' = "main"
    /\ UNCHANGED <<config, clock, timestamp, zip_file, title, test_type,
                   prompt_i, all_prompt_responses, results, task, returned,
                   model_responses, completed>>

\* Lines 661-680: after the loop, the archive of all reports.
Export ==
    /\ pc = "main"
    /\ idx > Len(content_list)
    /\ zip_file' = IF Len(all_results) > 1 THEN all_results ELSE <<>>
    /\ pc' = "done"
    /\ UNCHANGED <<config, clock, idx, timestamp, all_results, downloads, title,
                   test_type, prompt_i, all_prompt_responses, results, task,
                   returned, model_responses, completed>>

Next ==
    \/ StartAnalysis
    \/ ProcessArticle
    \/ Dispatch
    \/ \E i \in 1..Len(selected_models) : Start(i)
    \/ \E i \in 1..Len(selected_models) : Finish(i)
    \/ \E i \in 1..Len(selected_models) : Collect(i)
    \/ PoolExit
    \/ AppendResponses
    \/ Assemble
    \/ NextVariant
    \/ ReturnArticle
    \/ Export

Idle ==
    /\ clock = 0
    /\ pc = "start"
    /\ idx = 1
    /\ timestamp = 0
    /\ all_results = <<>>
    /\ downloads = <<>>
    /\ zip_file = <<>>
    /\ title = <<>>
    /\ test_type = "A"
    /\ prompt_i = 1
    /\ all_prompt_responses = <<>>
    /\ results = <<>>
    /\ task = <<>>
    /\ returned = <<>>
    /\ model_responses = <<>>
    /\ completed = 0

(***************************************************************************)
(* The program on one pasted text (text mode holds exactly one document),  *)
(* with a selection out of the default one.                                *)
(***************************************************************************)
Article(t, h, n) == [title |-> t, fetch |-> "ok", head |-> h, len |-> n]

Texts ==
    {Article(<<"a">>, "other", 5000), Article(<<"a", "?">>, "Error", 1200),
     Article(<<"b">>, "other", 20)}

Init ==
    /\ input_mode = "text"
    /\ content_list \in {<<d>> : d \in Texts}
    /\ selected_models \in Prefixes(DefaultSelection, Len(DefaultSelection)) \cup {<<>>}
    /\ endpoint \in [Range(selected_models) -> {Ok, Http500}]
    /\ api_key \in {"", "sk-key"}
    /\ image_data = "png"
    /\ Idle

Spec == Init /\ [][Next]_vars

(***************************************************************************)
(* The program on a batch of URLs, with one model selected.                *)
(***************************************************************************)
Page(t, f, h, n) == [title |-> t, fetch |-> f, head |-> h, len |-> n]

Pages ==
    {Page(<<"a">>, "ok", "other", 1200), Page(<<"a", "?">>, "ok", "other", 1200),
     Page(<<"b">>, "ok", "Error", 1200), Page(<<"c">>, "ok", "other", 20),
     Page(<<"d">>, "fail", "other", 0)}

SeqsUpTo(S, n) == UNION {[1..k -> S] : k \in 1..n}

InitBatch ==
    /\ input_mode = "url"
    /\ content_list \in SeqsUpTo(Pages, MaxDocs)
    /\ selected_models = SubSeq(DefaultSelection, 1, 1)
    /\ endpoint \in {[m \in Range(selected_models) |-> b] : b \in {Ok, Http500}}
    /\ api_key = "sk-key"
    /\ image_data \in {"none", "png"}
    /\ Idle

SpecBatch == InitBatch /\ [][Next]_vars

(***************************************************************************)
(* One call of query_models_concurrent, from its entry to its return, for  *)
(* the first prompt of variant A of a document.                            *)
(***************************************************************************)
PoolEndpoints(n) ==
    IF n <= Len(DefaultSelection)
    THEN [Range(SubSeq(MODELS, 1, n)) -> Behaviours]
    ELSE {[m \in Range(SubSeq(MODELS, 1, n)) |-> b] : b \in Behaviours}
         \cup {[m \in Range(SubSeq(MODELS, 1, n)) |->
                    IF m = MODELS[k] THEN Http500 ELSE Ok] : k \in {1, n}}

InitPool ==
    /\ \E n \in 1..MaxPoolModels :
          /\ selected_models = SubSeq(MODELS, 1, n)
          /\ endpoint \in PoolEndpoints(n)
    /\ content_list = <<Article(<<"a">>, "other", 1200)>>
    /\ input_mode = "text"
    /\ clock = 0
    /\ pc = "dispatch"
    /\ idx = 1
    /\ timestamp = 0
    /\ all_results = <<>>
    /\ downloads = <<>>
    /\ title = <<"a">>
    /\ test_type = "A"
    /\ prompt_i = 1
    /\ all_prompt_responses = <<>>
    /\ results = <<>>
    /\ task = <<>>
    /\ returned = <<>>
    /\ model_responses = <<>>
    /\ completed = 0
    /\ api_key = "sk-key"
    /\ image_data = "none"
    /\ zip_file = <<>>

NextPool ==
    \/ Dispatch
    \/ \E i \in 1..Len(selected_models) : Start(i)
    \/ \E i \in 1..Len(selected_models) : Finish(i)
    \/ \E i \in 1..Len(selected_models) : Collect(i)
    \/ PoolExit

SpecPool == InitPool /\ [][NextPool]_vars

(***************************************************************************)
(* Properties.                                                             *)
(***************************************************************************)
\* The number of retries of query_model_async: its except clause returns the
\* failure text at once.
maxRetries == 0

Submitted == Range(selected_models)

\* What the endpoint does to the one request the task of model m sends.
FirstResponse(m) == Respond(endpoint[m], 1)

RequestFails(m) == FirstResponse(m).status # "200" \/ FirstResponse(m).body = "malformed"

\* The answer of model m to the current prompt over the current variant.
OwnAnswer(m) == strip(Content(endpoint[m], m, test_type, Prompt(prompt_i)))

\* C1: when query_models_concurrent returns, the keys of the mapping are
\* exactly the submitted models, failed ones included; and no key that was
\* not submitted is ever in the mapping.
Thm_C1_KeySetIsSubmitted ==
    /\ KeySet(model_responses) \subseteq Submitted
    /\ pc = "returned" => KeySet(model_responses) = Submitted

\* C1's case: a returned batch larger than the pool, one task of which failed.
Wit_C1_ReturnedWithFailure ==
    /\ pc = "returned"
    /\ Len(selected_models) > MAX_WORKERS
    /\ \E m \in Submitted : RequestFails(m)
    /\ \E m \in Submitted : ~RequestFails(m)

\* C2: the number of query_model_async calls in flight never exceeds
\* min(maxWorkers, taskCount).
Thm_C2_InFlightBounded ==
    Cardinality(InFlight) <= Min(MAX_WORKERS, Len(selected_models))

\* C2's case: the pool is full while a task still waits in the queue.
Wit_C2_PoolFull ==
    /\ Cardinality(InFlight) = MAX_WORKERS
    /\ \E i \in DOMAIN task : task[i] = "queued"

\* C3: whichever tasks fail, the pool never stops early: while the batch runs
\* some step is possible, and at the return every task has produced its one
\* result, a non-failing task's result being its own answer.
Thm_C3_FailureDoesNotStopSiblings ==
    /\ pc = "pool" => ENABLED NextPool
    /\ pc = "returned" =>
          /\ \A i \in DOMAIN task : task[i] = "collected"
          /\ completed = Len(selected_models)
          /\ Len(model_responses) = Len(selected_models)
          /\ \A m \in Submitted :
                ~RequestFails(m) => Get(model_responses, m) = OwnAnswer(m)

\* C3's case: a returned batch with a failed task and a non-failing sibling
\* that was submitted after it.
Wit_C3_SiblingAnswered ==
    /\ pc = "returned"
    /\ \E i, j \in DOMAIN task :
          /\ i < j
          /\ RequestFails(selected_models[i])
          /\ ~RequestFails(selected_models[j])
          /\ Get(model_responses, selected_models[j]) = OwnAnswer(selected_models[j])

\* C5: a task whose endpoint fails N times and then answers ends in Success
\* after N+1 requests when N < maxRetries + 1 and in Failure otherwise, and
\* no task sends more than maxRetries + 1 requests.
Thm_C5_RetryOutcome ==
    \A i \in DOMAIN returned :
        returned[i].status # "none" =>
            LET b == endpoint[selected_models[i]]
            IN  /\ returned[i].requests <= maxRetries + 1
                /\ b.body = "answer" /\ b.failN < maxRetries + 1 =>
                      returned[i].status = "Success" /\ returned[i].requests = b.failN + 1
                /\ b.body = "answer" /\ b.failN >= maxRetries + 1 =>
                      returned[i].status = "Failure"

\* C5's case: one task whose endpoint failed once and one whose endpoint
\* answered at once have both returned.
Wit_C5_FailedOnceAndAnswered ==
    \E i, j \in DOMAIN returned :
        /\ returned[i].status = "Failure"
        /\ endpoint[selected_models[i]].failN = 1
        /\ returned[j].status = "Success"
        /\ endpoint[selected_models[j]].failN = 0

\* The report of the current variant, once assembled.
CurrentReport == Get(results, test_type)

Reverse(d) == [k \in 1..Len(d) |-> d[Len(d) + 1 - k]]

\* C4: in every assembled report, the blocks under each prompt are in the
\* order of the model selection (the task-list order), whatever the order
\* in which the tasks completed; and there is one section per prompt with
\* one block per model.
Cex_C4_BlocksInSelectionOrder ==
    pc = "assembled" =>
        /\ Len(CurrentReport.sections) = NumPrompts
        /\ \A i \in 1..Len(CurrentReport.sections) :
              Keys(CurrentReport.sections[i].blocks) = selected_models

\* C6: assembling the report again over the same per-prompt results, at any
\* later time and with the results inserted in another order, gives the
\* report already assembled.
Cex_C6_AssemblerOrderStable ==
    pc = "assembled" =>
        \A now \in clock..MaxTime :
            \A again \in {all_prompt_responses,
                          [i \in 1..Len(all_prompt_responses) |->
                              Reverse(all_prompt_responses[i])]} :
                create_markdown_content(title, again, test_type, selected_models,
                                        image_data, input_mode, now) = CurrentReport

\* C7: when the batch returns, the text recorded for a model all of whose
\* attempts failed begins with the failure marker and contains the model's
\* identifier, and every other model's text is its own answer.
Cex_C7_FailureTextNamesModel ==
    pc = "returned" =>
        \A m \in Submitted :
            IF RequestFails(m)
            THEN /\ Get(model_responses, m)[1] = FailPrefix
                 /\ m \in Range(Get(model_responses, m))
            ELSE Get(model_responses, m) = OwnAnswer(m)

\* A block that marks a vendor as skipped: headed by the vendor, not a model.
IsSkippedBlock(block, vendor) == block[1] = vendor

\* C10: in every assembled report, each section holds, for each vendor none
\* of whose models is selected, exactly one skipped block and no block of a
\* model of that vendor.
Cex_C10_SkippedVendorBlock ==
    pc = "assembled" =>
        \A v \in Vendors :
            (\A m \in Submitted : Vendor(m) # v) =>
                \A i \in 1..Len(CurrentReport.sections) :
                    LET blocks == CurrentReport.sections[i].blocks
                    IN  /\ Cardinality({k \in 1..Len(blocks) :
                                            IsSkippedBlock(blocks[k], v)}) = 1
                        /\ \A k \in 1..Len(blocks) :
                              IsSkippedBlock(blocks[k], v) \/ Vendor(blocks[k][1]) # v

\* Every task of the current batch is terminal and its result collected.
AllTerminal == \A i \in DOMAIN task : task[i] = "collected"

\* C8: the assembler runs only when every task dispatched for the variant is
\* terminal (none queued, in flight or uncollected, all prompts answered),
\* and from the moment the mappings are handed to it until the variant is
\* left, no step starts a task or writes to a mapping.
Thm_C8_AssembleAfterAllTerminal ==
    [][/\ pc' \in {"assemble", "assembled"} =>
             /\ AllTerminal'
             /\ Len(all_prompt_responses') = NumPrompts
       /\ pc \in {"assemble", "assembled"} /\ pc' \in {"assemble", "assembled"} =>
             /\ all_prompt_responses' = all_prompt_responses
             /\ model_responses' = model_responses
             /\ task' = task]_vars

\* C8's case: the report of variant B was assembled from a batch of several
\* models, one of which failed.
Wit_C8_AssembledB ==
    /\ pc = "assembled"
    /\ test_type = "B"
    /\ Len(selected_models) > 1
    /\ \E m \in Submitted : RequestFails(m)
    /\ KeySet(results) = {"A", "B"}

\* Whether document k was acquired: it was fetched and its cleaned text is
\* long enough.
Acquired(k) ==
    /\ content_list[k].fetch = "ok"
    /\ Truncated(content_list[k].len) >= MIN_CONTENT_LEN

ReportsOf(k) == {downloads[j].test : j \in {j \in 1..Len(downloads) : downloads[j].idx = k}}

\* C9: when a batch of several documents is done, every document that was acquired has its
\* report A and its report B, and a document that was not has none,
\* wherever the failing documents stand in the list.
Cex_C9_AcquiredDocumentsReported ==
    pc = "done" /\ Len(content_list) > 1 =>
        \A k \in 1..Len(content_list) :
            ReportsOf(k) = IF Acquired(k) THEN {"A", "B"} ELSE {}

\* C11: the text of every result query_model_async has returned is
\* non-empty, an HTTP 200 whose answer content is blank included.
Cex_C11_TextNeverEmpty ==
    \A i \in DOMAIN returned :
        returned[i].status # "none" => returned[i].text # <<>>

\* The documents process_article produced reports for.
Processed == {k \in 1..Len(content_list) : ReportsOf(k) # {}}

\* C12: when the batch is done, all_results holds one entry per processed
\* document and variant: two per processed document, also when two
\* documents have titles that give the same file name.
Cex_C12_TwoEntriesPerDocument ==
    pc = "done" => Len(all_results) = 2 * Cardinality(Processed)

\* A worker starts a task in this step.
TaskStarts == \E i \in DOMAIN task : task[i] = "queued" /\ i \in DOMAIN task' /\ task'[i] = "running"

\* C13: batches are strictly sequential.  A new batch is submitted, and the
\* prompt or the variant changes, only when every task of the batch before
\* is terminal; variant B begins only after the report of variant A is
\* assembled; and a task starts only while its own batch is being collected,
\* so all calls in flight belong to the current (variant, prompt).
Thm_C13_BatchesSequential ==
    [][/\ pc = "dispatch" => AllTerminal
       /\ prompt_i' # prompt_i \/ test_type' # test_type => AllTerminal
       /\ test_type = "A" /\ test_type' = "B" => "A" \in KeySet(results)
       /\ TaskStarts => pc = "pool"
       /\ pc # "pool" => InFlight = {}]_vars

\* C13's case: two calls of the second prompt of variant B are in flight.
Wit_C13_InFlightInLastBatch ==
    /\ Cardinality(InFlight) > 1
    /\ test_type = "B"
    /\ prompt_i = 2
    /\ Len(all_prompt_responses) = 1

====
